---- MODULE Spec2Model ----
(***************************************************************************)
(* Model of yarns::Voice (src/yarns/voice.cc): the per-voice control core  *)
(* of the MIDI-to-CV interface.  One action per public method.             *)
(*                                                                         *)
(* Init is the state after construction and one call of Voice::Init; the   *)
(* fields Voice::Init does not assign start with arbitrary values.         *)
(*                                                                         *)
(* uint32_t values are pairs <<hi, lo>> of 16-bit halves (value =          *)
(* hi * 65536 + lo), because the model checker's integers are 32-bit       *)
(* signed; all arithmetic on them is done modulo 2^32 on the halves.       *)
(***************************************************************************)
EXTENDS Integers, Naturals, Sequences, FiniteSets, TLC

----------------------------------------------------------------------------
(* Fixed-width arithmetic                                                  *)

\* 2^16: one half of a uint32_t, and the modulus of uint16_t.
W16 == 65536

U32(hi, lo) == <<hi, lo>>

Zero32 == U32(0, 0)

\* uint32_t a + b, wrapping modulo 2^32.
Add32(a, b) ==
  LET lo == a[2] + b[2]
  IN  U32((a[1] + b[1] + (lo \div W16)) % W16, lo % W16)

\* uint32_t a < b.
Lt32(a, b) == a[1] < b[1] \/ (a[1] = b[1] /\ a[2] < b[2])

\* uint32_t a <= b.
Le32(a, b) == a = b \/ Lt32(a, b)

IsZero32(a) == a = Zero32

\* phase >> 16
Shr16(a) == a[1]

\* phase >> 24
Shr24(a) == a[1] \div 256

\* (phase >> 8) & 0xffff
Mid16(a) == (a[1] % 256) * 256 + (a[2] \div 256)

\* phase >> 15  (17 significant bits)
Shr15(a) == a[1] * 2 + (a[2] \div 32768)

\* phase >> 11  (21 significant bits)
Shr11(a) == a[1] * 32 + (a[2] \div 2048)

\* phase >> 17
Shr17(a) == a[1] \div 2

\* C integer division, truncating toward zero (b > 0).
CDiv(a, b) == IF a >= 0 THEN a \div b ELSE -((-a) \div b)

\* stdlib abs() on int.
Abs(a) == IF a < 0 THEN -a ELSE a

\* conversion of an int to uint16_t.
ToU16(a) == a % W16

----------------------------------------------------------------------------
(* Constants of voice.cc and of the headers it includes                    *)

\* const int32_t kOctave = 12 << 7;
kOctave == 1536

\* const int32_t kMaxNote = 120 << 7;
kMaxNote == 15360

\* Number of entries of calibrated_dac_code_ (yarns/voice.h).
kNumOctaves == 11

\* stmlib_midi controller numbers used by ControlChange (stmlib/midi/midi.h).
kCCModulationWheelMsb == 1

kCCBreathController == 2

kCCFootPedalMsb == 4

\* enum TriggerShape (yarns/voice.h); the shapes from
\* TRIGGER_SHAPE_EXPONENTIAL on are read from waveform_table.
TRIGGER_SHAPE_SQUARE == 0

TRIGGER_SHAPE_LINEAR == 1

TRIGGER_SHAPE_EXPONENTIAL == 2

\* Index set of the calibration table.
Octaves == 0 .. (kNumOctaves - 1)

\* Init(reset_calibration = true): calibrated_dac_code_[i] = 54586 - 5133 * i.
DefaultCalibration == [i \in Octaves |-> 54586 - 5133 * i]

----------------------------------------------------------------------------
(* Note-to-DAC-code quantization: Voice::NoteToDacCode                     *)

\* if (note <= 0) note = 0; if (note >= kMaxNote) note = kMaxNote - 1;
\* Mutant: the upper clamp tests note > kMaxNote.
ClampNoteOffByOne(note) ==
  LET n0 == IF note <= 0 THEN 0 ELSE note
  IN  IF n0 > kMaxNote THEN kMaxNote - 1 ELSE n0

ClampNote(note) ==
  LET n0 == IF note <= 0 THEN 0 ELSE note
  IN  IF n0 >= kMaxNote THEN kMaxNote - 1 ELSE n0

\* while (note >= kOctave) { note -= kOctave; ++octave; }
\* The result is <<remaining note, octave>>.
RECURSIVE OctaveLoop(_, _)
OctaveLoop(note, octave) ==
  IF note >= kOctave
    THEN OctaveLoop(note - kOctave, octave + 1)
    ELSE <<note, octave>>

\* The octave index NoteToDacCode reaches for `note`; it reads the table at
\* this index and at the next one.
NoteOctave(note) == OctaveLoop(ClampNote(note), 0)[2]

\* return a + ((b - a) * note / kOctave), converted to uint16_t.
\* Mutant: the interpolation runs from the upper entry down.
InterpolateCodeSwapped(a, b, note) == ToU16(b + CDiv((a - b) * note, kOctave))

InterpolateCode(a, b, note) == ToU16(a + CDiv((b - a) * note, kOctave))

\* calibrated_dac_code_[i].  The table has kNumOctaves entries; a read past
\* it (which NoteToDacCode never makes) is represented by 0.
CodeAt(table, i) == IF i \in DOMAIN table THEN table[i] ELSE 0

\* Mutant: the bracket is looked up one octave too high.
NoteToDacCodeNextOctave(note, table) ==
  LET r == OctaveLoop(ClampNote(note), 0)
      a == CodeAt(table, r[2] + 1)
      b == CodeAt(table, r[2] + 2)
  IN  InterpolateCode(a, b, r[1])

NoteToDacCode(note, table) ==
  LET r == OctaveLoop(ClampNote(note), 0)
      a == CodeAt(table, r[2])
      b == CodeAt(table, r[2] + 1)
  IN  InterpolateCode(a, b, r[1])

----------------------------------------------------------------------------
(* Read-only lookup tables (yarns/resources.cc) and stmlib's interpolation *)

\* lut_portamento_increments[i]: uint32_t phase increments, non-zero and
\* decreasing with the index (a larger index is a slower ramp).
lut_portamento_increments(i) == U32(24000 - 150 * i, 4321)

\* lut_lfo_increments[i]: uint32_t phase increments of the vibrato LFO.
lut_lfo_increments(i) == U32(32768 - 64 * i, 0)

\* lut_env_expo[i], i in 0..256: a rising uint16_t curve from 0 to 65535.
lut_env_expo(i) == IF i >= 256 THEN 65535 ELSE 65536 - (256 - i) * (256 - i)

\* stmlib::Interpolate824(lut_env_expo, phase) for a uint16_t table:
\*   a = table[phase >> 24]; b = table[(phase >> 24) + 1];
\*   return a + ((b - a) * ((phase >> 8) & 0xffff) >> 16);
Interpolate824Expo(phase) ==
  LET a == lut_env_expo(Shr24(phase))
      b == lut_env_expo(Shr24(phase) + 1)
  IN  ToU16(a + (((b - a) * Mid16(phase)) \div W16))

\* waveform_table[k][i], i in 0..256: int16_t decay curves from 32767
\* down to 0.
waveform_table(k, i) ==
  IF i >= 256 THEN 0 ELSE ((256 - i) * (256 - i) * 32767) \div 65536

\* stmlib::Interpolate824(table, phase) for an int16_t table.
Interpolate824Wave(k, phase) ==
  LET a == waveform_table(k, Shr24(phase))
      b == waveform_table(k, Shr24(phase) + 1)
  IN  a + (((b - a) * Mid16(phase)) \div W16)

----------------------------------------------------------------------------
(* State of a Voice                                                        *)

VARIABLES
  note_,                         \* last published composed pitch (int32_t)
  note_source,
  note_target,
  note_portamento,
  gate,
  mod_velocity,
  mod_pitch_bend,
  mod_wheel,
  mod_aux,                       \* [0..7 -> uint16_t]
  modulation_rate,
  pitch_bend_range,
  vibrato_range,
  tuning,
  lfo_phase,                     \* uint32_t
  lfo_pll_phase_increment,       \* uint32_t
  portamento_phase,              \* uint32_t
  portamento_phase_increment,    \* uint32_t
  portamento_exponential_shape,
  trigger_duration,
  retrigger_delay,
  trigger_pulse,
  trigger_phase,                 \* uint32_t
  trigger_phase_increment,       \* uint32_t
  trigger_shape,
  trigger_scale,
  calibrated_dac_code,           \* [0..kNumOctaves-1 -> uint16_t]
  note_dac_code,
  dirty,
  last_call,                     \* history: the method called last, with its arguments
  calls,                         \* history: number of event-handler calls so far
  pulse_ticks,                   \* history: Refresh ticks since the last triggered NoteOn (-1: none yet)
  retriggered,                   \* history: the last triggered NoteOn found the gate already high
  probe                          \* input and result of the quantizer probe (SpecQuant)

pitch_vars == <<note_, note_source, note_target, note_portamento,
                portamento_phase, portamento_phase_increment,
                portamento_exponential_shape>>

mod_vars == <<mod_velocity, mod_pitch_bend, mod_wheel, mod_aux, lfo_phase>>

config_vars == <<modulation_rate, pitch_bend_range, vibrato_range, tuning,
                 lfo_pll_phase_increment, trigger_duration, trigger_shape,
                 trigger_scale>>

trigger_vars == <<retrigger_delay, trigger_pulse, trigger_phase,
                  trigger_phase_increment>>

output_vars == <<calibrated_dac_code, note_dac_code, dirty>>

history_vars == <<last_call, calls, pulse_ticks, retriggered>>

vars == <<pitch_vars, gate, mod_vars, config_vars, trigger_vars, output_vars,
          history_vars, probe>>

----------------------------------------------------------------------------
(* Bounds and input sets of the model                                      *)

\* Event-handler calls (NoteOn, NoteOff, ControlChange, Calibrate) per run;
\* Refresh ticks are not bounded.
MaxCalls == 3

NoteInputs == {48 * 128, 72 * 128}

VelocityInputs == {100}

\* 0: no glide; 1: exponential shape; 52: linear shape.
PortamentoInputs == {0, 1, 52}

\* The three recognized controllers and one unrecognized one.
ControllerInputs == {kCCModulationWheelMsb, kCCBreathController,
                     kCCFootPedalMsb, 7}

\* The largest MIDI data byte.
ValueInputs == {127}

\* A calibration table different from the default one in every entry.
AltCalibration == [i \in Octaves |-> 60000 - 5000 * i]

CalibrationInputs == {AltCalibration}

\* Values of the fields Voice::Init leaves unassigned.
UninitCounters == {0, 1}

UninitPhases == {Zero32, U32(40000, 0)}

UninitCodes == {0, 4660}

UninitTunings == {0, -7681}

\* trigger_shape_ and trigger_scale_ are read by trigger_dac_code only.
UninitShapes == {TRIGGER_SHAPE_SQUARE, TRIGGER_SHAPE_LINEAR,
                 TRIGGER_SHAPE_EXPONENTIAL}

NoProbe == [note |-> 0, octave |-> 0, code |-> 0]

Call(op, note, portamento, trigger, retrigger, controller, value) ==
  [op |-> op, note |-> note, portamento |-> portamento, trigger |-> trigger,
   retrigger |-> retrigger, controller |-> controller, value |-> value]

----------------------------------------------------------------------------
(* Voice::ResetAllControllers and Voice::Init                              *)

\* std::fill(&mod_aux_[0], &mod_aux_[7], 0) clears entries 0..6 and leaves
\* entry 7 as it was.
ResetAux(aux) == [i \in 0 .. 7 |-> IF i < 7 THEN 0 ELSE aux[i]]

\* The fields Voice::Init assigns, and arbitrary values, drawn from the
\* given sets, for the fields it leaves unassigned.
InitVoice(counters, phases, codes, tunings, shapes, scales) ==
  /\ note_ = -1
  /\ note_source = 60 * 128
  /\ note_target = 60 * 128
  /\ note_portamento = 60 * 128
  /\ gate = FALSE
  /\ mod_velocity = 0
  /\ mod_pitch_bend = 8192
  /\ mod_wheel = 0
  /\ \E g \in codes : mod_aux = ResetAux([i \in 0 .. 7 |-> g])
  /\ modulation_rate = 0
  /\ pitch_bend_range = 2
  /\ vibrato_range = 0
  /\ lfo_phase = Zero32
  /\ portamento_phase = Zero32
  /\ portamento_phase_increment = U32(32768, 0)
  /\ portamento_exponential_shape = FALSE
  /\ trigger_duration = 2
  /\ dirty = FALSE
  /\ tuning \in tunings
  /\ lfo_pll_phase_increment = Zero32
  /\ retrigger_delay \in counters
  /\ trigger_pulse \in counters
  /\ trigger_phase \in phases
  /\ trigger_phase_increment \in phases
  /\ trigger_shape \in shapes
  /\ trigger_scale \in scales
  /\ note_dac_code \in codes
  /\ last_call = Call("Init", 0, 0, FALSE, FALSE, 0, 0)
  /\ calls = 0
  /\ pulse_ticks = -1
  /\ retriggered = FALSE

\* The state after construction and Init(reset_calibration = true).  No
\* method of this specification reads trigger_shape and trigger_scale.
Init ==
  /\ InitVoice(UninitCounters, UninitPhases, UninitCodes, UninitTunings,
               {TRIGGER_SHAPE_SQUARE}, {FALSE})
  /\ calibrated_dac_code = DefaultCalibration
  /\ probe = NoProbe

----------------------------------------------------------------------------
(* Voice::Refresh                                                          *)

\* portamento_phase_ += portamento_phase_increment_;
\* if (portamento_phase_ < portamento_phase_increment_): the wraparound test.
PhaseWrapped(phase, increment) == Lt32(Add32(phase, increment), increment)

\* The accumulator after the step: reset to 0 on wraparound.
PhaseAfter(phase, increment) ==
  IF PhaseWrapped(phase, increment) THEN Zero32 ELSE Add32(phase, increment)

\* The increment after the step: reset to 0 on wraparound.
IncrementAfter(phase, increment) ==
  IF PhaseWrapped(phase, increment) THEN Zero32 ELSE increment

\* Mutant: the source is not snapped to the target on wraparound.
SourceAfterNoSnap(phase, increment, source, target) == source

\* note_source_ = note_target_ on wraparound.
SourceAfter(phase, increment, source, target) ==
  IF PhaseWrapped(phase, increment) THEN target ELSE source

\* portamento_level: exponential table lookup or portamento_phase_ >> 16.
PortamentoLevel(exponential, phase) ==
  IF exponential THEN Interpolate824Expo(phase) ELSE Shr16(phase)

\* Mutant: the product is shifted by 15, not 16.
GlidePitchShift15(source, target, level) ==
  source + (((target - source) * level) \div 32768)

\* note_source_ + ((note_target_ - note_source_) * portamento_level >> 16)
GlidePitch(source, target, level) ==
  source + (((target - source) * level) \div W16)

\* Mutant: the bend is not taken relative to its center.
PitchBendOffsetUncentered(bend, range) == (bend * range) \div 64

\* static_cast<int32_t>(mod_pitch_bend_ - 8192) * pitch_bend_range_ >> 6
PitchBendOffset(bend, range) == ((bend - 8192) * range) \div 64

\* The LFO increment: rate table below 100, PLL increment otherwise.
LfoIncrement(rate, pll_increment) ==
  IF rate < 100 THEN lut_lfo_increments(rate) ELSE pll_increment

\* Mutant: the falling half starts from 0x18000.
LfoTriangleOffByOne(phase) ==
  IF phase[1] < 32768 THEN -32768 + Shr15(phase) ELSE 98304 - Shr15(phase)

\* lfo = lfo_phase_ < 1UL << 31 ? -32768 + (lfo_phase_ >> 15)
\*                              : 0x17fff - (lfo_phase_ >> 15)
LfoTriangle(phase) ==
  IF phase[1] < 32768 THEN -32768 + Shr15(phase) ELSE 98303 - Shr15(phase)

\* lfo * mod_wheel_ * vibrato_range_ >> 15
VibratoOffset(lfo, wheel, range) == (lfo * wheel * range) \div 32768

\* mod_aux_[0], [1], [5], [6], [7] are rewritten; [2], [3], [4] are kept.
RefreshAux(aux, velocity, wheel, bend, lfo) ==
  [aux EXCEPT ![0] = ToU16(velocity * 512),
              ![1] = ToU16(wheel * 512),
              ![5] = ToU16(ToU16(bend) * 4),
              ![6] = ToU16(((lfo * wheel) \div 128) + 32768),
              ![7] = ToU16(lfo + 32768)]

\* if (counter) { --counter; }
Countdown(counter) == IF counter # 0 THEN counter - 1 ELSE counter

\* if (note != note_ || dirty_): the composed pitch is published.
MustPublish(note, published, is_dirty) == note # published \/ is_dirty

\* History: ticks since the last triggered NoteOn, counted up to one past
\* the pulse width.
TickPulse(ticks) ==
  IF ticks >= 0 /\ ticks <= trigger_duration * 8 THEN ticks + 1 ELSE ticks

\* The locals of Refresh are bound with \E over singleton sets, which
\* evaluates each of them once.
Refresh ==
  \E source \in {SourceAfter(portamento_phase, portamento_phase_increment,
                             note_source, note_target)},
     phase \in {PhaseAfter(portamento_phase, portamento_phase_increment)},
     lphase \in {Add32(lfo_phase,
                       LfoIncrement(modulation_rate, lfo_pll_phase_increment))} :
  \E glide \in {GlidePitch(source, note_target,
                           PortamentoLevel(portamento_exponential_shape, phase))},
     lfo \in {LfoTriangle(lphase)} :
  \E note \in {glide + PitchBendOffset(mod_pitch_bend, pitch_bend_range)
                 + tuning + VibratoOffset(lfo, mod_wheel, vibrato_range)} :
      /\ portamento_phase' = phase
      /\ portamento_phase_increment' =
           IncrementAfter(portamento_phase, portamento_phase_increment)
      /\ note_source' = source
      /\ note_portamento' = glide
      /\ lfo_phase' = lphase
      /\ mod_aux' = RefreshAux(mod_aux, mod_velocity, mod_wheel,
                               mod_pitch_bend, lfo)
      /\ retrigger_delay' = Countdown(retrigger_delay)
      /\ trigger_pulse' = Countdown(trigger_pulse)
      /\ IF ~IsZero32(trigger_phase_increment)
           THEN /\ trigger_phase' =
                     PhaseAfter(trigger_phase, trigger_phase_increment)
                /\ trigger_phase_increment' =
                     IncrementAfter(trigger_phase, trigger_phase_increment)
           ELSE UNCHANGED <<trigger_phase, trigger_phase_increment>>
      /\ IF MustPublish(note, note_, dirty)
           THEN /\ note_dac_code' = NoteToDacCode(note, calibrated_dac_code)
                /\ note_' = note
                /\ dirty' = FALSE
           ELSE UNCHANGED <<note_dac_code, note_, dirty>>
      /\ last_call' = Call("Refresh", 0, 0, FALSE, FALSE, 0, 0)
      /\ pulse_ticks' = TickPulse(pulse_ticks)
      /\ UNCHANGED <<note_target, portamento_exponential_shape, gate,
                     mod_velocity, mod_pitch_bend, mod_wheel, config_vars,
                     calibrated_dac_code, calls, retriggered, probe>>

----------------------------------------------------------------------------
(* Voice::NoteOn                                                           *)

\* Mutant: a glide starts from the previous target, not from the current
\* interpolated pitch.
GlideSourceFromTarget(note, portamento, current) ==
  IF portamento = 0 THEN note ELSE note_target

\* Mutant: portamento 0 does not skip the glide.
GlideSourceAlwaysCurrent(note, portamento, current) == current

\* note_source_ = note_portamento_; if (!portamento) note_source_ = note_target_;
GlideSource(note, portamento, current) ==
  IF portamento = 0 THEN note ELSE current

\* (1536 * (base_increment >> 11) / delta) mod 2^21, in uint32_t arithmetic.
\* With x = base_increment >> 11 = a * delta + r, the quotient is
\* 1536 * a + (1536 * r) / delta; 1536 * x < 2^32 does not wrap, and only
\* the low 21 bits of the quotient survive the following << 11.
ScaledQuotient(base, delta) ==
  LET x == Shr11(base)
      a == x \div delta
      r == x % delta
  IN  (512 * ((3 * a) % 4096) + ((1536 * r) \div delta)) % 2097152

\* q << 11 as a uint32_t, for q < 2^21.
Shl11(q) == U32(q \div 32, (q % 32) * 2048)

\* Mutant: only the upper limit is enforced.
ConstrainNoFloor(increment) ==
  IF increment[1] >= 32768 THEN U32(32767, 65535) ELSE increment

\* CONSTRAIN(portamento_phase_increment_, 1, 2147483647) on a uint32_t.
Constrain(increment) ==
  IF IsZero32(increment) THEN U32(0, 1)
  ELSE IF increment[1] >= 32768 THEN U32(32767, 65535)
  ELSE increment

\* Mutant: the base increment is not divided by the distance.
LinearIncrementNoDistance(base, source, target) == Constrain(base)

\* uint32_t delta = abs(note_target_ - note_source_) + 1;
\* portamento_phase_increment_ = (1536 * (base_increment >> 11) / delta) << 11;
LinearIncrement(base, source, target) ==
  Constrain(Shl11(ScaledQuotient(base, Abs(target - source) + 1)))

\* The increment NoteOn stores: table entry (portamento <= 50) or the
\* distance-scaled one.
GlideIncrement(portamento, source, target) ==
  IF portamento <= 50
    THEN lut_portamento_increments(portamento * 2)
    ELSE LinearIncrement(lut_portamento_increments((portamento - 51) * 2),
                         source, target)

\* Mutant: the gap is forced on every triggered note, gated or not.
RetriggerDelayAlways(gated, trigger, delay) ==
  IF trigger THEN 2 ELSE delay

\* Mutant: the forced gap is one tick long.
RetriggerDelayOne(gated, trigger, delay) ==
  IF gated /\ trigger THEN 1 ELSE delay

\* if (gate_ && trigger) retrigger_delay_ = 2;
RetriggerDelay(gated, trigger, delay) ==
  IF gated /\ trigger THEN 2 ELSE delay

\* Mutant: the pulse is armed one tick short.
ArmedPulseShort(duration) == duration * 8 - 1

\* trigger_pulse_ = trigger_duration_ * 8;
ArmedPulse(duration) == duration * 8

NoteOn(note, velocity, portamento, trigger) ==
  \E source \in {GlideSource(note, portamento, note_portamento)} :
      /\ calls < MaxCalls
      /\ note_source' = source
      /\ note_target' = note
      /\ portamento_phase' = Zero32
      /\ portamento_phase_increment' = GlideIncrement(portamento, source, note)
      /\ portamento_exponential_shape' = (portamento <= 50)
      /\ mod_velocity' = velocity
      /\ retrigger_delay' = RetriggerDelay(gate, trigger, retrigger_delay)
      /\ IF trigger
           THEN /\ trigger_pulse' = ArmedPulse(trigger_duration)
                /\ trigger_phase' = Zero32
                /\ trigger_phase_increment' =
                     lut_portamento_increments(trigger_duration)
                /\ pulse_ticks' = 0
                /\ retriggered' = gate
           ELSE UNCHANGED <<trigger_pulse, trigger_phase,
                            trigger_phase_increment, pulse_ticks, retriggered>>
      /\ gate' = TRUE
      /\ last_call' = Call("NoteOn", note, portamento, trigger,
                           gate /\ trigger, 0, 0)
      /\ calls' = calls + 1
      /\ UNCHANGED <<note_, note_portamento, mod_pitch_bend, mod_wheel,
                     mod_aux, lfo_phase, config_vars, output_vars, probe>>

----------------------------------------------------------------------------
(* Voice::NoteOff, Voice::ControlChange, Voice::Calibrate                  *)

\* Mutant: NoteOff also cuts the trigger pulse.
NoteOffCutsPulse ==
  /\ calls < MaxCalls
  /\ gate' = FALSE
  /\ trigger_pulse' = 0
  /\ last_call' = Call("NoteOff", 0, 0, FALSE, FALSE, 0, 0)
  /\ calls' = calls + 1
  /\ UNCHANGED <<pitch_vars, mod_vars, config_vars, retrigger_delay,
                 trigger_phase, trigger_phase_increment, output_vars,
                 pulse_ticks, retriggered, probe>>

NoteOff ==
  /\ calls < MaxCalls
  /\ gate' = FALSE
  /\ last_call' = Call("NoteOff", 0, 0, FALSE, FALSE, 0, 0)
  /\ calls' = calls + 1
  /\ UNCHANGED <<pitch_vars, mod_vars, config_vars, trigger_vars, output_vars,
                 pulse_ticks, retriggered, probe>>

\* case kCCModulationWheelMsb: mod_wheel_ = value;
WheelAfter(controller, value, wheel) ==
  IF controller = kCCModulationWheelMsb THEN value ELSE wheel

\* Mutant: breath and foot pedal write each other's entry.
AuxAfterSwapped(controller, value, aux) ==
  IF controller = kCCBreathController THEN [aux EXCEPT ![4] = ToU16(value * 512)]
  ELSE IF controller = kCCFootPedalMsb THEN [aux EXCEPT ![3] = ToU16(value * 512)]
  ELSE aux

\* case kCCBreathController: mod_aux_[3] = value << 9;
\* case kCCFootPedalMsb:     mod_aux_[4] = value << 9;
AuxAfter(controller, value, aux) ==
  IF controller = kCCBreathController THEN [aux EXCEPT ![3] = ToU16(value * 512)]
  ELSE IF controller = kCCFootPedalMsb THEN [aux EXCEPT ![4] = ToU16(value * 512)]
  ELSE aux

ControlChange(controller, value) ==
  /\ calls < MaxCalls
  /\ mod_wheel' = WheelAfter(controller, value, mod_wheel)
  /\ mod_aux' = AuxAfter(controller, value, mod_aux)
  /\ last_call' = Call("ControlChange", 0, 0, FALSE, FALSE, controller, value)
  /\ calls' = calls + 1
  /\ UNCHANGED <<pitch_vars, gate, mod_velocity, mod_pitch_bend, lfo_phase,
                 config_vars, trigger_vars, output_vars, pulse_ticks,
                 retriggered, probe>>

\* std::copy of the caller's table into calibrated_dac_code_; nothing else
\* is assigned, dirty_ included.
Calibrate(table) ==
  /\ calls < MaxCalls
  /\ calibrated_dac_code' = table
  /\ last_call' = Call("Calibrate", 0, 0, FALSE, FALSE, 0, 0)
  /\ calls' = calls + 1
  /\ UNCHANGED <<pitch_vars, gate, mod_vars, config_vars, trigger_vars,
                 note_dac_code, dirty, pulse_ticks, retriggered, probe>>

----------------------------------------------------------------------------
(* The inline setters of yarns/voice.h that feed the pitch composition     *)

\* void PitchBend(uint16_t pitch_bend) { mod_pitch_bend_ = pitch_bend; }
PitchBend(pitch_bend) ==
  /\ mod_pitch_bend' = pitch_bend
  /\ last_call' = Call("PitchBend", 0, 0, FALSE, FALSE, 0, pitch_bend)
  /\ UNCHANGED <<pitch_vars, gate, mod_velocity, mod_wheel, mod_aux,
                 lfo_phase, config_vars, trigger_vars, output_vars, calls,
                 pulse_ticks, retriggered, probe>>

\* void set_pitch_bend_range(uint8_t v) { pitch_bend_range_ = v; }
set_pitch_bend_range(range) ==
  /\ pitch_bend_range' = range
  /\ last_call' = Call("set_pitch_bend_range", 0, 0, FALSE, FALSE, 0, range)
  /\ UNCHANGED <<pitch_vars, gate, mod_vars, modulation_rate, vibrato_range,
                 tuning, lfo_pll_phase_increment, trigger_duration,
                 trigger_shape, trigger_scale, trigger_vars, output_vars,
                 calls, pulse_ticks, retriggered, probe>>

\* void set_vibrato_range(uint8_t v) { vibrato_range_ = v; }
set_vibrato_range(range) ==
  /\ vibrato_range' = range
  /\ last_call' = Call("set_vibrato_range", 0, 0, FALSE, FALSE, 0, range)
  /\ UNCHANGED <<pitch_vars, gate, mod_vars, modulation_rate,
                 pitch_bend_range, tuning, lfo_pll_phase_increment,
                 trigger_duration, trigger_shape, trigger_scale, trigger_vars,
                 output_vars, calls, pulse_ticks, retriggered, probe>>

\* void set_tuning(int8_t coarse, int8_t fine): tuning_ = (coarse << 7) + fine;
set_tuning(coarse, fine) ==
  /\ tuning' = coarse * 128 + fine
  /\ last_call' = Call("set_tuning", 0, 0, FALSE, FALSE, 0, coarse * 128 + fine)
  /\ UNCHANGED <<pitch_vars, gate, mod_vars, modulation_rate,
                 pitch_bend_range, vibrato_range, lfo_pll_phase_increment,
                 trigger_duration, trigger_shape, trigger_scale, trigger_vars,
                 output_vars, calls, pulse_ticks, retriggered, probe>>

----------------------------------------------------------------------------
(* Voice::trigger_dac_code                                                 *)

\* int32_t velocity_coefficient = trigger_scale_ ? mod_velocity_ << 8 : 32768;
VelocityCoefficient(scale, velocity) ==
  IF scale THEN velocity * 256 ELSE 32768

\* switch (trigger_shape_): the envelope value before scaling.
ShapeValue(shape, phase) ==
  IF shape = TRIGGER_SHAPE_SQUARE THEN 32767
  ELSE IF shape = TRIGGER_SHAPE_LINEAR THEN 32767 - Shr17(phase)
  ELSE Interpolate824Wave(shape - TRIGGER_SHAPE_EXPONENTIAL, phase)

\* value = value * velocity_coefficient >> 15;
\* return min + ((max - min) * value >> 15), with min = calibrated_dac_code_[3]
\* and max = calibrated_dac_code_[8].
EnvelopeCode(table, shape, scale, velocity, phase) ==
  LET value == (ShapeValue(shape, phase) * VelocityCoefficient(scale, velocity))
                 \div 32768
      max == table[8]
      min == table[3]
  IN  ToU16(min + (((max - min) * value) \div 32768))

\* Mutant: the zero-volt test is trigger_phase_ < trigger_phase_increment_.
TriggerDacCodeStrict(table, shape, scale, velocity, phase, increment) ==
  IF Lt32(phase, increment)
    THEN table[3]
    ELSE EnvelopeCode(table, shape, scale, velocity, phase)

\* if (trigger_phase_ <= trigger_phase_increment_) return
\* calibrated_dac_code_[3]; else the shaped and scaled envelope.
TriggerDacCode(table, shape, scale, velocity, phase, increment) ==
  IF Le32(phase, increment)
    THEN table[3]
    ELSE EnvelopeCode(table, shape, scale, velocity, phase)

\* The accessor on the current state.
trigger_dac_code ==
  TriggerDacCode(calibrated_dac_code, trigger_shape, trigger_scale,
                 mod_velocity, trigger_phase, trigger_phase_increment)

----------------------------------------------------------------------------
(* The voice driven by the MIDI layer and the periodic tick                *)

Next ==
  \/ Refresh
  \/ \E n \in NoteInputs, v \in VelocityInputs, p \in PortamentoInputs,
        t \in BOOLEAN : NoteOn(n, v, p, t)
  \/ NoteOff
  \/ \E c \in ControllerInputs, v \in ValueInputs : ControlChange(c, v)
  \/ \E t \in CalibrationInputs : Calibrate(t)

Spec == Init /\ [][Next]_vars

\* The voice with its unassigned fields zeroed (an object in zero-initialized
\* static storage).
ZeroInit ==
  /\ InitVoice({0}, {Zero32}, {0}, {0}, {TRIGGER_SHAPE_SQUARE}, {FALSE})
  /\ calibrated_dac_code = DefaultCalibration
  /\ probe = NoProbe

\* The scheduler invokes Refresh at a fixed rate, forever.
FairSpec == ZeroInit /\ [][Next]_vars /\ WF_vars(Refresh)

----------------------------------------------------------------------------
(* The quantizer on its own: NoteToDacCode applied to chosen notes under   *)
(* chosen calibration tables                                               *)

\* Probed notes lie within this distance of an octave boundary or of an end
\* of the int32_t range.
MaxProbeOffset == 2

MinInt32 == -2147483647 - 1

MaxInt32 == 2147483647

ProbeNotes ==
  {k * kOctave + d : k \in 0 .. 10, d \in (-MaxProbeOffset) .. MaxProbeOffset}
    \cup {k * kOctave + 700 : k \in 0 .. 9}
    \cup {MinInt32 + d : d \in 0 .. MaxProbeOffset}
    \cup {MaxInt32 - d : d \in 0 .. MaxProbeOffset}
    \cup {-32768, 32767}

\* Calibration tables: rising (linear, convex, flat, unit steps, saturating)
\* and falling (the default table and the alternative one).
ProbeTables ==
  { [i \in Octaves |-> 3256 + 5133 * i],
    [i \in Octaves |-> 500 * i * i],
    [i \in Octaves |-> 30000],
    [i \in Octaves |-> 100 + i],
    [i \in Octaves |-> IF 7000 * i + (i % 3) * 11 > 65535
                         THEN 65535 ELSE 7000 * i + (i % 3) * 11],
    DefaultCalibration,
    AltCalibration }

ProbeOf(n, table) ==
  [note |-> n, octave |-> NoteOctave(n), code |-> NoteToDacCode(n, table)]

QuantInit ==
  /\ InitVoice({0}, {Zero32}, {0}, {0}, {TRIGGER_SHAPE_SQUARE}, {FALSE})
  /\ calibrated_dac_code \in ProbeTables
  /\ probe = ProbeOf(0, calibrated_dac_code)

Probe(n) ==
  /\ probe' = ProbeOf(n, calibrated_dac_code)
  /\ UNCHANGED <<pitch_vars, gate, mod_vars, config_vars, trigger_vars,
                 output_vars, history_vars>>

QuantNext == \E n \in ProbeNotes : Probe(n)

SpecQuant == QuantInit /\ [][QuantNext]_vars

----------------------------------------------------------------------------
(* The concrete scenario of the specification: one NoteOn of middle C on a *)
(* freshly initialized voice, between Refresh ticks                        *)

\* 60 << 7: middle C, no fraction.
MiddleC == 60 * 128

ScenarioNext ==
  \/ Refresh
  \/ (calls = 0 /\ NoteOn(MiddleC, 100, 0, TRUE))

ScenarioSpec == Init /\ [][ScenarioNext]_vars

----------------------------------------------------------------------------
(* The glide on its own: the voice driven by untriggered notes, and the    *)
(* linear-shape increment of a NoteOn recomputed for chosen base           *)
(* increments                                                              *)

\* Base increments: the first and the last table entry NoteOn can read for
\* the linear shape, and non-zero values at the ends of the uint32_t range
\* and at the edges of the computation ((base >> 11) = 0, 1, 4096, 2^21 - 1).
ProbeBases ==
  { lut_portamento_increments(0), lut_portamento_increments(98),
    U32(0, 1), U32(0, 2048), U32(128, 0), U32(65535, 65535) }

\* raw: the value of (1536 * (base >> 11) / delta) << 11 before CONSTRAIN;
\* increment: what NoteOn stores.
IncrementProbeOf(base, source, target) ==
  [base |-> base, distance |-> Abs(target - source),
   raw |-> Shl11(ScaledQuotient(base, Abs(target - source) + 1)),
   increment |-> LinearIncrement(base, source, target)]

NoIncrementProbe ==
  IncrementProbeOf(lut_portamento_increments(0), MiddleC, MiddleC)

\* The computation of the linear-shape NoteOn just received, redone with
\* another base increment in place of the table entry.
ProbeIncrement(base) ==
  /\ last_call.op = "NoteOn"
  /\ last_call.portamento > 50
  /\ probe' = IncrementProbeOf(base, note_source, note_target)
  /\ UNCHANGED <<pitch_vars, gate, mod_vars, config_vars, trigger_vars,
                 output_vars, history_vars>>

GlideInit ==
  /\ InitVoice({0}, {Zero32}, {0}, {0}, {TRIGGER_SHAPE_SQUARE}, {FALSE})
  /\ calibrated_dac_code = DefaultCalibration
  /\ probe = NoIncrementProbe

\* The voice runs until the computation is probed.
GlideNext ==
  \/ (probe = NoIncrementProbe /\ Refresh)
  \/ \E n \in NoteInputs, p \in PortamentoInputs :
        (probe = NoIncrementProbe /\ NoteOn(n, 100, p, FALSE))
  \/ (probe = NoIncrementProbe /\ NoteOff)
  \/ (probe = NoIncrementProbe /\ ControlChange(kCCModulationWheelMsb, 127))
  \/ \E b \in ProbeBases : ProbeIncrement(b)

SpecGlide == GlideInit /\ [][GlideNext]_vars

----------------------------------------------------------------------------
(* The duration of a linear glide: the increment NoteOn stores for a       *)
(* portamento amount and a pair of pitches, and the number of Refresh      *)
(* ticks until the phase accumulator started at 0 wraps                    *)

\* portamento_phase_ += portamento_phase_increment_ once per Refresh, until
\* portamento_phase_ < portamento_phase_increment_: the number of the tick
\* that detects the wraparound.
RECURSIVE GlideTicks(_, _, _)
GlideTicks(phase, increment, n) ==
  IF PhaseWrapped(phase, increment)
    THEN n + 1
    ELSE LET next == CHOOSE x \in {Add32(phase, increment)} : TRUE
         IN  GlideTicks(next, increment, n + 1)

\* Portamento amounts of the linear shape.
ProbeAmounts == {51, 52, 55, 60, 75}

\* Pitches within [0, kMaxNote), on and off octave boundaries.
GlideSources == {0, MiddleC, kMaxNote - 1}

GlideTargets == {0, 768, 1536, 2304, 3072, 4608, 6144, MiddleC, 9216, 10752,
                 12288, 13824, kMaxNote - 1}

GlideProbeOf(amount, source, target) ==
  [amount |-> amount, distance |-> Abs(target - source),
   base |-> lut_portamento_increments((amount - 51) * 2),
   increment |-> GlideIncrement(amount, source, target),
   ticks |-> GlideTicks(Zero32, GlideIncrement(amount, source, target), 0)]

GlideTimeInit ==
  /\ InitVoice({0}, {Zero32}, {0}, {0}, {TRIGGER_SHAPE_SQUARE}, {FALSE})
  /\ calibrated_dac_code = DefaultCalibration
  /\ probe = GlideProbeOf(51, MiddleC, MiddleC)

ProbeGlide(amount, source, target) ==
  /\ probe' = GlideProbeOf(amount, source, target)
  /\ UNCHANGED <<pitch_vars, gate, mod_vars, config_vars, trigger_vars,
                 output_vars, history_vars>>

GlideTimeNext ==
  \E a \in ProbeAmounts, s \in GlideSources, t \in GlideTargets :
    ProbeGlide(a, s, t)

SpecGlideTime == GlideTimeInit /\ [][GlideTimeNext]_vars

----------------------------------------------------------------------------
(* The trigger envelope: notes with and without glide, with and without    *)
(* trigger, under every trigger shape and scale setting                    *)

TriggerInit ==
  /\ InitVoice(UninitCounters, UninitPhases, {0}, {0}, UninitShapes, BOOLEAN)
  /\ calibrated_dac_code = DefaultCalibration
  /\ probe = NoProbe

TriggerNext ==
  \/ Refresh
  \/ \E n \in NoteInputs, p \in {0, 52}, t \in BOOLEAN : NoteOn(n, 100, p, t)
  \/ NoteOff
  \/ \E t \in CalibrationInputs : Calibrate(t)

SpecTrigger == TriggerInit /\ [][TriggerNext]_vars

----------------------------------------------------------------------------
(* The pitch composition: glides, the modulation wheel, pitch bend, bend   *)
(* range, vibrato range and tuning                                         *)

PitchInit ==
  /\ InitVoice({0}, {Zero32}, UninitCodes, {0}, {TRIGGER_SHAPE_SQUARE},
               {FALSE})
  /\ calibrated_dac_code = DefaultCalibration
  /\ probe = NoProbe

\* The lowest MIDI note without glide and a high one with a linear glide;
\* bend fully down, a bend range of an octave, a vibrato range of a fifth,
\* and tunings of one semitone down plus 5/128 and of 1/128 down.
PitchNext ==
  \/ Refresh
  \/ \E n \in {<<0, 0>>, <<72 * 128, 52>>} : NoteOn(n[1], 100, n[2], FALSE)
  \/ ControlChange(kCCModulationWheelMsb, 127)
  \/ PitchBend(0)
  \/ set_pitch_bend_range(12)
  \/ set_vibrato_range(7)
  \/ \E fine \in {5} : set_tuning(-1, fine)
  \/ \E fine \in {-1} : set_tuning(0, fine)

SpecPitch == PitchInit /\ [][PitchNext]_vars

----------------------------------------------------------------------------
(* The vibrato oscillator on its own: the LFO step of Refresh applied to   *)
(* chosen phases, rates, PLL increments and wheel positions                *)

\* Phases before the step: on the wraparound, the half-period and the
\* quarter-periods, and half-way between two values of phase >> 15.
LfoPhases ==
  { U32(0, 0), U32(0, 32768), U32(16384, 0), U32(32768, 0),
    U32(32768, 32768), U32(49152, 0), U32(65535, 32768) }

\* PLL increments that move the phase by at most MaxProbeOffset up or, by
\* unsigned wraparound, down.
LfoPllIncrements ==
  {U32(0, d) : d \in 0 .. MaxProbeOffset}
    \cup {U32(65535, 65536 - d) : d \in 1 .. MaxProbeOffset}

\* Rate-table clocking (below 100) and PLL clocking.
LfoRates == {0, 99, 100}

LfoWheels == {0, 1, 127}

\* lfo_phase_ += increment; lfo = triangle; mod_aux_[6], mod_aux_[7].
LfoProbeOf(before, rate, pll_increment, wheel) ==
  LET phase == Add32(before, LfoIncrement(rate, pll_increment))
      lfo == LfoTriangle(phase)
      aux == RefreshAux([i \in 0 .. 7 |-> 0], 0, wheel, 8192, lfo)
  IN  [phase |-> phase, wheel |-> wheel, lfo |-> lfo,
       aux6 |-> aux[6], aux7 |-> aux[7]]

LfoInit ==
  /\ InitVoice({0}, {Zero32}, {0}, {0}, {TRIGGER_SHAPE_SQUARE}, {FALSE})
  /\ calibrated_dac_code = DefaultCalibration
  /\ probe = LfoProbeOf(lfo_phase, modulation_rate, lfo_pll_phase_increment,
                        mod_wheel)

ProbeLfo(before, rate, pll_increment, wheel) ==
  /\ probe' = LfoProbeOf(before, rate, pll_increment, wheel)
  /\ UNCHANGED <<pitch_vars, gate, mod_vars, config_vars, trigger_vars,
                 output_vars, history_vars>>

LfoNext ==
  \E b \in LfoPhases, r \in LfoRates, i \in LfoPllIncrements,
     w \in LfoWheels : ProbeLfo(b, r, i, w)

SpecLfo == LfoInit /\ [][LfoNext]_vars

----------------------------------------------------------------------------
(* Properties                                                              *)

\* The step just taken is a call of the named method.
Called(op) == last_call'.op = op /\ vars' # vars

\* The unsigned wraparound test of the glide, on the state before a Refresh.
GlideWraps ==
  Lt32(Add32(portamento_phase, portamento_phase_increment),
       portamento_phase_increment)

GlideRunning == ~IsZero32(portamento_phase_increment)

GlideDone ==
  /\ IsZero32(portamento_phase_increment)
  /\ IsZero32(portamento_phase)
  /\ note_source = note_target
  /\ note_portamento = note_target

\* The Refresh that detects the wraparound resets phase and increment,
\* snaps the source to the target and lands exactly on the target.
C1Completes ==
  (Called("Refresh") /\ GlideRunning /\ GlideWraps) => GlideDone'

\* A Refresh of a running glide that does not wrap keeps the increment: the
\* reset happens at the wrapping tick and at no other.
C1NoEarlyReset ==
  (Called("Refresh") /\ GlideRunning /\ ~GlideWraps) =>
     /\ portamento_phase_increment' = portamento_phase_increment
     /\ portamento_phase' = Add32(portamento_phase, portamento_phase_increment)
     /\ note_source' = note_source

\* Once completed, every step but a NoteOn leaves the glide completed: no
\* second reset, and the pitch stays on the target.
C1StaysDone ==
  (GlideDone /\ ~Called("NoteOn")) => GlideDone'

\* C1: glide completion.  Every running glide (portamento_phase_increment
\* non-zero) reaches, under repeated Refresh calls, the tick at which the
\* unsigned wraparound is detected; at that tick phase and increment become
\* 0, note_source becomes note_target and note_portamento equals
\* note_target; this happens once per glide, and note_portamento stays on
\* note_target until the next NoteOn.
C1_GlideCompletion ==
  /\ [][C1Completes /\ C1NoEarlyReset /\ C1StaysDone]_vars
  /\ (GlideRunning ~> GlideDone)

\* A linear glide between two different pitches, started by a NoteOn, has
\* completed on its target.
C1_Witness ==
  /\ last_call.op = "Refresh"
  /\ calls >= 1
  /\ ~portamento_exponential_shape
  /\ GlideDone
  /\ note_target \in NoteInputs

\* C2: legato glide restart.  A NoteOn with portamento > 0 issued while a
\* glide is in progress (note_source # note_target, increment non-zero)
\* sets note_source to the note_portamento of the most recent Refresh and
\* restarts portamento_phase at 0.
C2_LegatoRestart ==
  [][(/\ Called("NoteOn")
      /\ last_call'.portamento > 0
      /\ note_source # note_target
      /\ GlideRunning)
     => (/\ note_source' = note_portamento
         /\ portamento_phase' = Zero32
         /\ note_target' = last_call'.note)]_vars

\* Right after a legato NoteOn the glide starts from an interpolated pitch,
\* which is none of the pitches ever requested.
C2_Witness ==
  /\ last_call.op = "NoteOn"
  /\ last_call.portamento > 0
  /\ note_source = note_portamento
  /\ note_source \notin (NoteInputs \cup {60 * 128})
  /\ note_source # note_target
  /\ portamento_phase = Zero32

\* C3: no-portamento pitch jump.  The first Refresh after a NoteOn with
\* portamento = 0 computes note_portamento = note, whatever the glide state
\* was before the NoteOn.
C3_NoPortamentoJump ==
  [][(/\ last_call.op = "NoteOn"
      /\ last_call.portamento = 0
      /\ Called("Refresh"))
     => note_portamento' = last_call.note]_vars

\* One tick after a NoteOn with portamento 0 that interrupted a glide at an
\* interpolated pitch: the phase holds exactly one table increment and the
\* pitch is on the new target, away from the pitch published before.
C3_Witness ==
  /\ last_call.op = "Refresh"
  /\ portamento_exponential_shape
  /\ portamento_phase = lut_portamento_increments(0)
  /\ note_portamento = note_target
  /\ note_target \in NoteInputs
  /\ calls >= 2

\* The pulse countdown is the armed width less the ticks elapsed, floored at 0.
PulseRemaining ==
  IF pulse_ticks >= trigger_duration * 8
    THEN 0
    ELSE trigger_duration * 8 - pulse_ticks

\* C4: trigger minimum width.  A triggered NoteOn arms trigger_pulse to
\* trigger_duration * 8; after k Refresh ticks without another triggered
\* NoteOn it holds trigger_duration * 8 - k, so it is non-zero after each of
\* the first trigger_duration * 8 - 1 ticks, zero at tick number
\* trigger_duration * 8, and zero (never wrapped) on every later tick.
C4_TriggerWidth == pulse_ticks >= 0 => trigger_pulse = PulseRemaining

\* The tick at which the countdown reaches zero.
C4_Witness ==
  /\ pulse_ticks = trigger_duration * 8
  /\ trigger_pulse = 0
  /\ last_call.op = "Refresh"

\* trigger_dac_code() returns the zero-volt code calibrated_dac_code_[3]
\* when trigger_phase_ <= trigger_phase_increment_.
TriggerAtZeroVolt == Le32(trigger_phase, trigger_phase_increment)

\* C5 as stated: after a triggered NoteOn on a gated voice, the envelope
\* phase does not advance (stays 0) on a Refresh that leaves retrigger_delay
\* non-zero.
C5_PhaseHeldDuringGap ==
  [][(/\ Called("Refresh")
      /\ retriggered
      /\ pulse_ticks >= 0
      /\ retrigger_delay' # 0)
     => trigger_phase' = Zero32]_vars

\* C5 as amended: a triggered NoteOn on a gated voice sets retrigger_delay
\* to 2 and the envelope phase to 0; the first Refresh leaves retrigger_delay
\* at 1 and has already advanced the phase by one increment; from the second
\* Refresh on retrigger_delay is 0; and while retrigger_delay is non-zero the
\* zero-volt condition of the trigger output holds.
C5_RetriggerGap ==
  retriggered =>
    /\ pulse_ticks = 0 =>
         /\ retrigger_delay = 2
         /\ trigger_phase = Zero32
         /\ ~IsZero32(trigger_phase_increment)
    /\ pulse_ticks = 1 =>
         /\ retrigger_delay = 1
         /\ trigger_phase = trigger_phase_increment
         /\ ~IsZero32(trigger_phase)
    /\ pulse_ticks >= 2 => retrigger_delay = 0
    /\ retrigger_delay # 0 => TriggerAtZeroVolt

\* One tick into the gap: the delay is still running, the envelope moves.
C5_Witness ==
  /\ retriggered
  /\ pulse_ticks = 1
  /\ retrigger_delay = 1
  /\ ~IsZero32(trigger_phase)
  /\ last_call.op = "Refresh"

\* C8: calibration change is published.  Once a pitch has been published,
\* the Refresh that follows a Calibrate leaves note_dac_code equal to NoteToDacCode(note_) under the
\* new table, also when the composed pitch did not change.
C8_CalibrationPublished ==
  [][(last_call.op = "Calibrate" /\ note_ # -1 /\ Called("Refresh"))
     => note_dac_code' = NoteToDacCode(note_', calibrated_dac_code')]_vars

\* C9: gate and NoteOff.  The gate is low after Init, NoteOn sets it,
\* NoteOff clears it and no other method changes it; NoteOff changes nothing
\* else of the voice.
C9_GateAndNoteOff ==
  /\ (last_call.op = "Init" => ~gate)
  /\ [][/\ Called("NoteOn") => gate'
        /\ Called("NoteOff") =>
             /\ ~gate'
             /\ UNCHANGED <<pitch_vars, mod_vars, config_vars, trigger_vars,
                            output_vars>>
        /\ (Called("Refresh") \/ Called("ControlChange") \/ Called("Calibrate"))
             => gate' = gate]_vars

\* A NoteOff has released a gated voice in the middle of a glide and of a
\* trigger pulse.
C9_Witness ==
  /\ last_call.op = "NoteOff"
  /\ ~gate
  /\ GlideRunning
  /\ note_portamento # note_target
  /\ trigger_pulse > 0
  /\ pulse_ticks >= 0

\* The voice apart from the two fields ControlChange may write.
cc_frame == <<pitch_vars, gate, mod_velocity, mod_pitch_bend, lfo_phase,
              config_vars, trigger_vars, output_vars>>

\* C10: ControlChange mapping.  The mod-wheel controller stores value in
\* mod_wheel, the breath controller value << 9 in mod_aux[3], the foot-pedal
\* controller value << 9 in mod_aux[4], each changing that field only; any
\* other controller changes nothing; Refresh keeps mod_aux[3] and mod_aux[4].
C10_ControlChangeMapping ==
  [][/\ Called("ControlChange") =>
          /\ UNCHANGED cc_frame
          /\ mod_wheel' =
               IF last_call'.controller = kCCModulationWheelMsb
                 THEN last_call'.value ELSE mod_wheel
          /\ mod_aux' =
               IF last_call'.controller = kCCBreathController
                 THEN [mod_aux EXCEPT ![3] = last_call'.value * 512]
               ELSE IF last_call'.controller = kCCFootPedalMsb
                 THEN [mod_aux EXCEPT ![4] = last_call'.value * 512]
               ELSE mod_aux
     /\ Called("Refresh") =>
          /\ mod_aux'[3] = mod_aux[3]
          /\ mod_aux'[4] = mod_aux[4]]_vars

\* A Refresh has run after the breath controller was set, and the value is
\* still there.
C10_Witness ==
  /\ last_call.op = "Refresh"
  /\ mod_aux[3] # 0
  /\ mod_aux[1] = 0

\* Entries non-decreasing with the octave index.
Monotonic(table) ==
  \A i \in 0 .. (kNumOctaves - 2) : table[i] <= table[i + 1]

\* C6: quantization monotonicity.  Under a calibration table whose entries
\* do not decrease with the octave index, for notes n1 < n2 in
\* [0, kMaxNote), NoteToDacCode(n1) <= NoteToDacCode(n2), across octave
\* boundaries too.  (n1 is the note probed before the step, n2 the one
\* probed by it.)
C6_QuantMonotonic ==
  [][(/\ Monotonic(calibrated_dac_code)
      /\ 0 <= probe.note
      /\ probe.note < probe'.note
      /\ probe'.note < kMaxNote)
     => probe.code <= probe'.code]_vars

\* A note on an octave boundary of a strictly rising table, quantized to the
\* table entry of that octave.
C6_Witness ==
  /\ Monotonic(calibrated_dac_code)
  /\ calibrated_dac_code[2] > calibrated_dac_code[1]
  /\ probe.note = 2 * kOctave
  /\ probe.code = calibrated_dac_code[2]

\* C7: boundary clamp and bounded indexing.  For every int32_t note the
\* table is read at an octave index in 0..9 and at the next one (at most
\* 10, the last entry); a note <= 0 yields the first entry, the code of
\* note 0; a note >= kMaxNote yields the code of note kMaxNote - 1.
C7_ClampAndIndex ==
  /\ probe.octave \in 0 .. 9
  /\ probe.octave + 1 <= kNumOctaves - 1
  /\ probe.note <= 0 =>
       /\ probe.code = calibrated_dac_code[0]
       /\ probe.code = NoteToDacCode(0, calibrated_dac_code)
  /\ probe.note >= kMaxNote =>
       probe.code = NoteToDacCode(kMaxNote - 1, calibrated_dac_code)

\* The largest int32_t, quantized in the last bracket of the default table.
C7_Witness ==
  /\ probe.note = MaxInt32
  /\ probe.octave = 9
  /\ calibrated_dac_code = DefaultCalibration
  /\ probe.code < calibrated_dac_code[9]

\* The scenario's NoteOn has been received and no tuning offset is set.
ScenarioPlayed == calls = 1 /\ note_target = MiddleC /\ tuning = 0

\* C11 as stated: right after the NoteOn the gate is high and the pitch
\* output code is already the quantized code of note 7680, which is 28921.
C11_ImmediatePitchCode ==
  ScenarioPlayed =>
    /\ gate
    /\ note_dac_code = 28921

\* C11 as amended: after Init with the default calibration,
\* NoteOn(7680, 100, 0, TRUE) sets the gate at once; with centered bend,
\* zero tuning and zero vibrato range the first Refresh after it, and every
\* later one, leaves the pitch output code at NoteToDacCode(7680) = 28921
\* (calibration entry 5); the pulse countdown is armed to 16, is non-zero
\* after each of the first 15 Refresh ticks and is 0 from the 16th on.
C11_Scenario ==
  ScenarioPlayed =>
    /\ gate
    /\ mod_pitch_bend = 8192 /\ vibrato_range = 0
    /\ mod_velocity = 100
    /\ pulse_ticks >= 1 =>
         /\ note_ = MiddleC
         /\ note_dac_code = 28921
         /\ note_dac_code = DefaultCalibration[5]
         /\ note_dac_code = NoteToDacCode(MiddleC, calibrated_dac_code)
    /\ pulse_ticks < 16 => trigger_pulse = 16 - pulse_ticks
    /\ pulse_ticks >= 16 => trigger_pulse = 0

\* The 16th tick after the scenario's NoteOn on a voice that had published
\* nothing before it: the countdown has just reached 0, the code is out.
C11_Witness ==
  /\ ScenarioPlayed
  /\ pulse_ticks = 16
  /\ trigger_pulse = 0
  /\ gate
  /\ note_dac_code = 28921
  /\ last_call.op = "Refresh"

\* 1 <= increment <= 2147483647, on a uint32_t.
InClampRange(increment) ==
  /\ Le32(U32(0, 1), increment)
  /\ Le32(increment, U32(32767, 65535))

\* C12: glide never stalls.  In every state reached through Init, NoteOn,
\* NoteOff, ControlChange and Refresh, portamento_phase_increment is
\* non-zero whenever a glide is in progress (note_source # note_target);
\* the increment a linear-shape NoteOn stores lies in [1, 2147483647]; and
\* so does the result of the 32-bit computation and the clamp for every
\* non-zero base increment and every distance.
C12_GlideNeverStalls ==
  /\ note_source # note_target => ~IsZero32(portamento_phase_increment)
  /\ (last_call.op = "NoteOn" /\ last_call.portamento > 50) =>
       InClampRange(portamento_phase_increment)
  /\ InClampRange(probe.increment)

\* A legato NoteOn has started a linear glide from an interpolated pitch,
\* and the same computation with the smallest non-zero base increment has
\* given a shifted quotient of 0, which the clamp raised to 1.
C12_Witness ==
  /\ note_source # note_target
  /\ note_source \notin (NoteInputs \cup {MiddleC})
  /\ ~portamento_exponential_shape
  /\ last_call.op = "NoteOn"
  /\ InClampRange(portamento_phase_increment)
  /\ probe.base = U32(0, 1)
  /\ probe.raw = Zero32
  /\ probe.increment = U32(0, 1)

\* The quotient 1536 * (base >> 11) / (distance + 1) is below 2^20: the
\* shift by 11 loses no bit and the clamp does not act.
NoWrap(p) == (1536 * Shr11(p.base)) \div (p.distance + 1) < 1048576

\* Two glides with the same linear portamento amount, the second over a
\* larger distance, neither computation wrapping.
LongerGlide ==
  /\ probe'.amount = probe.amount
  /\ probe'.distance > probe.distance
  /\ NoWrap(probe) /\ NoWrap(probe')

\* C13 as stated: for a fixed linear portamento amount, the glide over the
\* larger distance completes in the same number of Refresh ticks, up to
\* rounding (one tick), as the glide over the smaller one.
C13_ConstantTime ==
  [][LongerGlide => Abs(probe'.ticks - probe.ticks) <= 1]_vars

\* C13 as amended: for a fixed linear portamento amount and distances for
\* which the 32-bit computation does not wrap, the number of Refresh ticks
\* to completion does not decrease with the distance, and it at least
\* doubles, less one tick of rounding, when distance + 1 doubles: the glide
\* is constant-rate, not constant-time.
C13_ConstantRate ==
  [][LongerGlide =>
       /\ probe'.ticks >= probe.ticks
       /\ Le32(probe'.increment, probe.increment)
       /\ (probe'.distance + 1 >= 2 * (probe.distance + 1)
             => probe'.ticks >= 2 * probe.ticks - 1)]_vars

\* The five-octave glide with amount 52 takes 14 ticks where the one-octave
\* glide takes 3.
C13_Witness ==
  /\ probe.amount = 52
  /\ probe.distance = MiddleC
  /\ NoWrap(probe)
  /\ probe.ticks = 14
  /\ GlideProbeOf(52, 0, 1536).ticks = 3

\* A NoteOn with trigger = true is the step just taken.
TriggeredNoteOn == Called("NoteOn") /\ last_call'.trigger

\* The envelope started by the last triggered NoteOn has completed.
EnvelopeDone ==
  /\ pulse_ticks >= 1
  /\ IsZero32(trigger_phase)
  /\ IsZero32(trigger_phase_increment)

\* A Refresh of a running envelope adds the increment to the phase; the one
\* at which the sum wraps sets phase and increment to 0.
C14Advances ==
  (Called("Refresh") /\ pulse_ticks >= 0
     /\ ~IsZero32(trigger_phase_increment)) =>
    IF PhaseWrapped(trigger_phase, trigger_phase_increment)
      THEN /\ trigger_phase' = Zero32
           /\ trigger_phase_increment' = Zero32
      ELSE /\ trigger_phase' = Add32(trigger_phase, trigger_phase_increment)
           /\ trigger_phase_increment' = trigger_phase_increment

\* A completed envelope stays completed until the next triggered NoteOn:
\* the reset happens once.
C14StaysDone == (EnvelopeDone /\ ~TriggeredNoteOn) => EnvelopeDone'

\* The output is the zero-volt code right after the triggered NoteOn and
\* after the first Refresh that follows it.
C14ZeroVoltAtStart ==
  /\ TriggeredNoteOn => trigger_dac_code' = calibrated_dac_code'[3]
  /\ (pulse_ticks = 0 /\ Called("Refresh")) =>
       trigger_dac_code' = calibrated_dac_code'[3]

\* C14: trigger envelope phase and zero-volt output.  After a triggered
\* NoteOn each Refresh advances trigger_phase by trigger_phase_increment;
\* the Refresh at which the sum wraps sets both to 0, and they then stay 0
\* until the next triggered NoteOn; trigger_dac_code() is
\* calibrated_dac_code[3] right after the NoteOn, after the first Refresh of
\* the envelope, and in every state after the envelope has completed.
C14_TriggerEnvelope ==
  /\ [][C14Advances /\ C14StaysDone /\ C14ZeroVoltAtStart]_vars
  /\ [](EnvelopeDone => trigger_dac_code = calibrated_dac_code[3])

\* The first Refresh of an envelope: the phase equals one increment and the
\* output is the zero-volt code of the table in use.
C14_Witness ==
  /\ pulse_ticks = 1
  /\ last_call.op = "Refresh"
  /\ trigger_phase = trigger_phase_increment
  /\ ~IsZero32(trigger_phase)
  /\ trigger_dac_code = calibrated_dac_code[3]
  /\ calibrated_dac_code[3] # calibrated_dac_code[8]

\* C15: pitch composition.  After every Refresh the published note_ equals
\* note_portamento + (((mod_pitch_bend - 8192) * pitch_bend_range) >> 6)
\* + tuning + ((lfo * mod_wheel * vibrato_range) >> 15), lfo being the
\* triangle value of the lfo_phase that Refresh has just advanced; with the
\* bend at 8192, tuning 0 and mod_wheel or vibrato_range 0, note_ equals
\* note_portamento.
C15_PitchComposition ==
  [][Called("Refresh") =>
       /\ note_' = note_portamento'
                     + (((mod_pitch_bend - 8192) * pitch_bend_range) \div 64)
                     + tuning
                     + ((LfoTriangle(lfo_phase') * mod_wheel * vibrato_range)
                          \div 32768)
       /\ lfo_phase' =
            Add32(lfo_phase,
                  LfoIncrement(modulation_rate, lfo_pll_phase_increment))
       /\ (mod_pitch_bend = 8192 /\ tuning = 0
             /\ (mod_wheel = 0 \/ vibrato_range = 0))
            => note_' = note_portamento']_vars

\* A Refresh in the middle of a glide, with the bend fully down over an
\* octave range, a tuning offset and the wheel fully up over a non-zero
\* vibrato range: the published pitch is the glide pitch less the bend, the
\* tuning and the vibrato at the bottom of the triangle.
C15_Witness ==
  /\ last_call.op = "Refresh"
  /\ note_portamento \notin {MiddleC, 72 * 128}
  /\ mod_pitch_bend = 0 /\ pitch_bend_range = 12
  /\ tuning = -123
  /\ mod_wheel = 127 /\ vibrato_range = 7
  /\ lfo_phase = Zero32
  /\ note_ = note_portamento - 1536 - 123 - 889

\* What every NoteOn updates: target pitch, velocity, glide state and gate.
C16Updates ==
  Called("NoteOn") =>
    /\ note_target' = last_call'.note
    /\ mod_velocity' = 100
    /\ note_source' =
         IF last_call'.portamento = 0 THEN last_call'.note ELSE note_portamento
    /\ portamento_phase' = Zero32
    /\ portamento_exponential_shape' = (last_call'.portamento <= 50)
    /\ ~IsZero32(portamento_phase_increment')
    /\ gate'

\* C16: NoteOn conditional arming.  A NoteOn with trigger = false leaves
\* retrigger_delay, trigger_pulse, trigger_phase and
\* trigger_phase_increment unchanged; a NoteOn with trigger = true received
\* while the gate is low arms the pulse (trigger_duration * 8) and the
\* envelope (phase 0, increment from the table) and leaves retrigger_delay
\* unchanged; both update target pitch, velocity, glide state and gate.
C16_ConditionalArming ==
  [][/\ C16Updates
     /\ (Called("NoteOn") /\ ~last_call'.trigger) =>
          UNCHANGED <<retrigger_delay, trigger_pulse, trigger_phase,
                      trigger_phase_increment>>
     /\ (Called("NoteOn") /\ last_call'.trigger /\ ~gate) =>
          /\ retrigger_delay' = retrigger_delay
          /\ trigger_pulse' = trigger_duration * 8
          /\ trigger_phase' = Zero32
          /\ trigger_phase_increment' =
               lut_portamento_increments(trigger_duration)]_vars

\* An untriggered NoteOn has arrived one tick into the envelope of a
\* triggered NoteOn that found the gate low: the envelope and the pulse are
\* as that tick left them, and retrigger_delay was never set.
C16_Witness ==
  /\ last_call.op = "NoteOn"
  /\ ~last_call.trigger
  /\ ~retriggered
  /\ pulse_ticks = 1
  /\ trigger_pulse = trigger_duration * 8 - 1
  /\ trigger_phase = lut_portamento_increments(trigger_duration)
  /\ retrigger_delay = 0
  /\ gate

\* C17: lazy pitch publication is transparent.  With no Calibrate call
\* since Init, after every Refresh, the first one included, note_dac_code
\* equals NoteToDacCode(note_) for the pitch note_ composed in that Refresh.
C17_LazyPublication ==
  [][Called("Refresh") =>
       note_dac_code' = NoteToDacCode(note_', calibrated_dac_code')]_vars

\* x lies between a and b, inclusive, whichever of the two is larger.
Between(x, a, b) == (a <= x /\ x <= b) \/ (b <= x /\ x <= a)

\* Source and target of the glide are pitches within [0, kMaxNote].
InNoteRange ==
  /\ 0 <= note_source /\ note_source <= kMaxNote
  /\ 0 <= note_target /\ note_target <= kMaxNote

\* C18: glide without overshoot.  For source and target within
\* [0, kMaxNote], the interpolation level of every Refresh is in
\* [0, 65535] and the note_portamento it computes lies between note_source
\* (before and after the Refresh) and note_target, inclusive; for the linear
\* shape, each Refresh leaves note_portamento between its previous value
\* and note_target: it moves toward the target and never away from it.
C18_NoOvershoot ==
  [][(Called("Refresh") /\ InNoteRange) =>
       /\ PortamentoLevel(portamento_exponential_shape, portamento_phase')
            \in 0 .. 65535
       /\ Between(note_portamento', note_source, note_target)
       /\ Between(note_portamento', note_source', note_target')
       /\ ~portamento_exponential_shape =>
            /\ Between(note_portamento', note_portamento, note_target)
            /\ Abs(note_target - note_portamento')
                 <= Abs(note_target - note_portamento)]_vars

\* Two ticks or more into a rising linear glide over two octaves: the
\* pitch is strictly between source and target.
C18_Witness ==
  /\ last_call.op = "Refresh"
  /\ ~portamento_exponential_shape
  /\ note_target - note_source = 2 * kOctave
  /\ portamento_phase[1] >= 2 * portamento_phase_increment[1]
  /\ note_source < note_portamento
  /\ note_portamento < note_target

\* The phase is in the first half-period (below 2^31).
FirstHalf(phase) == phase[1] < 32768

\* The triangle value is a 16-bit signed value, and the two LFO outputs are
\* the unwrapped sums: they fit 16 bits.
C19Range ==
  /\ probe.lfo \in -32768 .. 32767
  /\ probe.aux7 = probe.lfo + 32768
  /\ probe.aux6 = ((probe.lfo * probe.wheel) \div 128) + 32768
  /\ probe.aux6 \in 0 .. 65535
  /\ probe.aux7 \in 0 .. 65535

\* Of two phases in the same half-period the larger one has the larger or
\* equal value in the first half and the smaller or equal value in the
\* second; two phases one apart, across the half-period and across the
\* wraparound too, have values at most one apart.
C19Shape ==
  /\ (Lt32(probe.phase, probe'.phase) /\ FirstHalf(probe'.phase))
       => probe.lfo <= probe'.lfo
  /\ (Lt32(probe.phase, probe'.phase) /\ ~FirstHalf(probe.phase))
       => probe.lfo >= probe'.lfo
  /\ probe'.phase = Add32(probe.phase, U32(0, 1))
       => Abs(probe'.lfo - probe.lfo) <= 1

\* C19: vibrato oscillator range.  For every lfo_phase the triangle value
\* computed by Refresh lies in [-32768, 32767], does not decrease with the
\* phase below 2^31 and does not increase with it from 2^31 on, with no
\* jump of more than one step at the half-period or at the wraparound;
\* mod_aux[7] = lfo + 32768 and mod_aux[6] = (lfo * mod_wheel >> 7) + 32768
\* stay within 0..65535 for mod_wheel in 0..127.
C19_LfoRange == [](C19Range) /\ [][C19Shape]_vars

\* The top of the triangle, at the half-period, with the wheel fully up.
C19_Witness ==
  /\ probe.phase = U32(32768, 0)
  /\ probe.wheel = 127
  /\ probe.lfo = 32767
  /\ probe.aux7 = 65535
  /\ probe.aux6 = 65279

====
